---- MODULE Spec2Model ----
(***************************************************************************)
(* State-machine model of the storefront backend in src/app.py: the four   *)
(* MongoDB collections (users, products, orders, carts), the Socket.IO     *)
(* broadcast channel, and one action per request-handler step.  A handler  *)
(* that makes several store calls is split at its store calls, because     *)
(* Flask-SocketIO serves requests concurrently and only a single store     *)
(* call is atomic.  Local computation (parsing, validation, building the   *)
(* response) is merged with the store call that follows or precedes it.    *)
(***************************************************************************)
EXTENDS Integers, Sequences, FiniteSets, TLC

\* ---------------------------------------------------------------- bounds
MaxReqs == 3        \* requests received in one behaviour
MaxInFlight == 2    \* handlers running at the same time
MaxOid == 2         \* store-generated ids a client may put in a path

\* ------------------------------------------------------------ data model
Emails == {"a@x", "b@x"}

\* werkzeug generate_password_hash: a salted hash; the salt is random.
Salts == {"s1", "s2"}
generate_password_hash(password, salt) == [salt |-> salt, pw |-> password]
check_password_hash(pwhash, password) == pwhash.pw = password

\* bson ObjectId: a path string is accepted only if it has OidLen hex
\* characters (24 in bson, scaled here); anything else raises InvalidId.
OidLen == 2
HexChars == {"0", "1", "2", "3"}
HexVal(c) == CASE c = "0" -> 0 [] c = "1" -> 1 [] c = "2" -> 2 [] c = "3" -> 3
RECURSIVE OidValue(_)
OidValue(s) == IF s = <<>> THEN 0
               ELSE 4 * OidValue(SubSeq(s, 1, Len(s) - 1)) + HexVal(s[Len(s)])
\* ObjectId(s): <<id>> when s parses, <<>> when bson raises InvalidId
ObjectId(s) == IF Len(s) = OidLen /\ \A i \in 1..Len(s) : s[i] \in HexChars
               THEN <<OidValue(s)>> ELSE <<>>
HexChar(d) == CASE d = 0 -> "0" [] d = 1 -> "1" [] d = 2 -> "2" [] d = 3 -> "3"
RECURSIVE OidDigits(_, _)
OidDigits(n, len) == IF len = 0 THEN <<>>
                     ELSE Append(OidDigits(n \div 4, len - 1), HexChar(n % 4))
\* str(_id)
OidStr(n) == OidDigits(n, OidLen)
\* path strings bson rejects: one not hex, one too short
MalformedIds == {<<"0", "z">>, <<"1">>}
PathIds == {OidStr(n) : n \in 1..MaxOid} \cup MalformedIds

\* ---------------------------------------------------------- store helpers
\* find_one, update_one and delete_one act on the first document that
\* matches, in natural order: the least of the matching indices, 0 for none
FirstIdx(matches) ==
    IF matches = {} THEN 0 ELSE CHOOSE i \in matches : \A j \in matches : i <= j
RemoveAt(coll, i) == SubSeq(coll, 1, i - 1) \o SubSeq(coll, i + 1, Len(coll))
Range(s) == {s[i] : i \in 1..Len(s)}

\* JSON bodies of the responses
Error(msg) == [error |-> msg]
Message(msg) == [message |-> msg]
Data(docs) == [data |-> docs]

\* ------------------------------------------------------- request inputs
\* "" stands for an absent or empty string field (both are falsy in `not x`);
\* <<>> stands for an absent or null field of another type, <<v>> for v.
RegisterInputs ==
    {[name |-> "Ann", email |-> e, password |-> "pw1"] : e \in Emails}
    \cup {[name |-> "", email |-> "a@x", password |-> "pw1"],
          [name |-> "Ann", email |-> "", password |-> "pw1"],
          [name |-> "Ann", email |-> "a@x", password |-> ""]}
LoginInputs ==
    {[email |-> e, password |-> p] : e \in Emails, p \in {"pw1", "pw2"}}
    \cup {[email |-> "", password |-> "pw1"], [email |-> "a@x", password |-> ""]}
UpdateCredentialsInputs ==
    {[current_email |-> c, new_email |-> n, new_password |-> "pw2"] : c \in Emails, n \in Emails}
    \cup {[current_email |-> "", new_email |-> "b@x", new_password |-> "pw2"],
          [current_email |-> "a@x", new_email |-> "", new_password |-> "pw2"],
          [current_email |-> "a@x", new_email |-> "b@x", new_password |-> ""]}
ProductIds == {1, 2, 9}
StockInputs == {[product_id |-> p, stock |-> st] : p \in ProductIds, st \in {<<>>, <<0>>, <<7>>}}
ItemLists ==
    { <<>>,
      <<[id |-> 1, quantity |-> 2, image |-> <<"client.png">>]>>,
      <<[id |-> 2, quantity |-> 1, image |-> <<"client.png">>]>>,
      <<[id |-> 9, quantity |-> 1, image |-> <<>>], [id |-> 1, quantity |-> 1, image |-> <<>>]>> }
OrderInputs ==
    {[user_email |-> e, items |-> it, city |-> "Pune", pincode |-> "411001", total_price |-> <<0>>]
        : e \in Emails, it \in ItemLists}
    \cup {[user_email |-> "", items |-> <<[id |-> 1, quantity |-> 2, image |-> <<>>]>>,
           city |-> "Pune", pincode |-> "411001", total_price |-> <<0>>],
          [user_email |-> "a@x", items |-> <<[id |-> 1, quantity |-> 2, image |-> <<>>]>>,
           city |-> "", pincode |-> "411001", total_price |-> <<0>>],
          [user_email |-> "a@x", items |-> <<[id |-> 1, quantity |-> 2, image |-> <<>>]>>,
           city |-> "Pune", pincode |-> "", total_price |-> <<0>>],
          [user_email |-> "a@x", items |-> <<[id |-> 1, quantity |-> 2, image |-> <<>>]>>,
           city |-> "Pune", pincode |-> "411001", total_price |-> <<>>]}
StatusInputs == {"", "Shipped"}
CartItems == {<<>>, <<[id |-> 1, quantity |-> 1]>>, <<[id |-> 2, quantity |-> 3]>>}
\* items is <<>> when null/absent, <<list>> otherwise
CartInputs ==
    {[user_email |-> e, items |-> <<it>>] : e \in Emails, it \in CartItems}
    \cup {[user_email |-> "", items |-> << <<>> >>], [user_email |-> "a@x", items |-> <<>>]}
ChatInputs == {"", "hi"}

\* ------------------------------------------------------------------ state
VARIABLES
    users,       \* db.users: sequence of documents in natural order
    products,    \* db.products
    orders,      \* db.orders
    carts,       \* db.carts
    nextOid,     \* the next _id the store generates
    emitted,     \* the Socket.IO broadcasts so far, in order
    inflight,    \* the handlers that are running: slot -> op, pc, arguments, locals
    last,        \* the response returned most recently, with its request
    nreq,        \* requests received so far
    registered,  \* history: emails for which register has returned 201
    cascaded     \* history: emails whose deleteUser returned 200 and for which no
                 \* createOrder has been received since

stores == <<users, products, orders, carts, nextOid, emitted>>
vars == <<users, products, orders, carts, nextOid, emitted, inflight, last, nreq,
          registered, cascaded>>

Idle == [op |-> "idle"]
Slots == 1..MaxInFlight
FreeSlots == {s \in Slots : inflight[s].op = "idle"}
CanReceive == nreq < MaxReqs /\ FreeSlots # {}
FreeSlot == CHOOSE s \in FreeSlots : \A t \in FreeSlots : s <= t
Running(s, op, pc) == inflight[s].op = op /\ inflight[s].pc = pc

\* the handler returns: the response becomes the latest one
Reply(op, seq, a, status, body, g) ==
    last' = [op |-> op, seq |-> seq, a |-> a, status |-> status, body |-> body, g |-> g]
\* the handler goes on to its next store call
Continue(s, op, pc, a, g) ==
    inflight' = [inflight EXCEPT ![s] = [op |-> op, pc |-> pc, seq |-> nreq + 1, a |-> a, g |-> g]]
Finish(s) == inflight' = [inflight EXCEPT ![s] = Idle]

Init ==
    /\ users = <<>>
    /\ products = << [id |-> 1, stock |-> 5, image |-> <<"img.png">>],
                     [id |-> 2, stock |-> 5, image |-> <<>>] >>
    /\ orders = <<>>
    /\ carts = <<>>
    /\ nextOid = 1
    /\ emitted = <<>>
    /\ inflight = [s \in Slots |-> Idle]
    /\ last = [op |-> "none", seq |-> 0]
    /\ nreq = 0
    /\ registered = {}
    /\ cascaded = {}

\* ================================================================ Accounts
HasEmail(coll, e) == \E i \in 1..Len(coll) : coll[i].email = e
\* a bug: the duplicate check queries the wrong field
find_user_by_email_wrong_field(coll, e) == FirstIdx({k \in 1..Len(coll) : coll[k].name = e})
\* users_collection.find_one({'email': email}): index of the match, 0 for None
find_user_by_email(coll, e) == FirstIdx({k \in 1..Len(coll) : coll[k].email = e})
\* users_collection.find_one({'_id': oid})
find_user_by_id(coll, oid) == FirstIdx({k \in 1..Len(coll) : coll[k]._id = oid})

\* register, lines 31-40: validation, then the duplicate check
register_begin ==
    /\ CanReceive
    /\ \E a \in RegisterInputs :
         LET g == [existed |-> HasEmail(users, a.email),
                   after201 |-> a.email \in registered]
         IN  IF a.name = "" \/ a.email = "" \/ a.password = ""
             THEN /\ Reply("register", nreq + 1, a, 400, Error("Missing required fields"), g)
                  /\ UNCHANGED inflight
             ELSE IF find_user_by_email(users, a.email) # 0
             THEN /\ Reply("register", nreq + 1, a, 400, Error("Email already registered"), g)
                  /\ UNCHANGED inflight
             ELSE /\ Continue(FreeSlot, "register", "insert", a, g)
                  /\ UNCHANGED last
    /\ nreq' = nreq + 1
    /\ UNCHANGED <<stores, registered, cascaded>>

\* register, lines 42-49: hash, insert_one, 201
register_insert(s) ==
    /\ Running(s, "register", "insert")
    /\ \E salt \in Salts :
         users' = Append(users, [_id |-> nextOid,
                                 name |-> inflight[s].a.name,
                                 email |-> inflight[s].a.email,
                                 password |-> generate_password_hash(inflight[s].a.password, salt)])
    /\ nextOid' = nextOid + 1
    /\ registered' = registered \cup {inflight[s].a.email}
    /\ Reply("register", inflight[s].seq, inflight[s].a, 201,
             Message("User registered successfully"), inflight[s].g)
    /\ Finish(s)
    /\ UNCHANGED <<products, orders, carts, emitted, nreq, cascaded>>

\* a bug: an unknown email is told apart from a wrong password
LoginResponse_leaky(coll, a) ==
    IF a.email = "" \/ a.password = ""
    THEN [status |-> 400, body |-> Error("Missing email or password")]
    ELSE LET i == FirstIdx({k \in 1..Len(coll) : coll[k].email = a.email})
         IN  IF i = 0
             THEN [status |-> 404, body |-> Error("User not found")]
             ELSE IF ~check_password_hash(coll[i].password, a.password)
             THEN [status |-> 401, body |-> Error("Invalid email or password")]
             ELSE [status |-> 200,
                   body |-> [message |-> "Login successful", name |-> coll[i].name]]
\* the response login computes from the users collection, lines 53-65
LoginResponse(coll, a) ==
    IF a.email = "" \/ a.password = ""
    THEN [status |-> 400, body |-> Error("Missing email or password")]
    ELSE LET i == find_user_by_email(coll, a.email)
         IN  IF i = 0 \/ ~check_password_hash(coll[i].password, a.password)
             THEN [status |-> 401, body |-> Error("Invalid email or password")]
             ELSE [status |-> 200,
                   body |-> [message |-> "Login successful", name |-> coll[i].name]]

login ==
    /\ CanReceive
    /\ \E a \in LoginInputs :
         LET r == LoginResponse(users, a)
             g == [existed |-> HasEmail(users, a.email)]
         IN  Reply("login", nreq + 1, a, r.status, r.body, g)
    /\ nreq' = nreq + 1
    /\ UNCHANGED <<stores, inflight, registered, cascaded>>

\* admin_get_users, lines 201-206: password projected out, _id as a string
UserView(u) == [_id |-> OidStr(u._id), name |-> u.name, email |-> u.email]
admin_get_users ==
    /\ CanReceive
    /\ Reply("admin_get_users", nreq + 1, <<>>, 200,
             Data([i \in 1..Len(users) |-> UserView(users[i])]), <<>>)
    /\ nreq' = nreq + 1
    /\ UNCHANGED <<stores, inflight, registered, cascaded>>

\* update_admin_credentials, lines 225-235: validation, then find_one
update_admin_credentials_begin ==
    /\ CanReceive
    /\ \E a \in UpdateCredentialsInputs :
         IF a.current_email = "" \/ a.new_email = "" \/ a.new_password = ""
         THEN /\ Reply("update_admin_credentials", nreq + 1, a, 400,
                       Error("Missing required fields"), <<>>)
              /\ UNCHANGED inflight
         ELSE IF find_user_by_email(users, a.current_email) = 0
         THEN /\ Reply("update_admin_credentials", nreq + 1, a, 404,
                       Error("Admin user not found"), <<>>)
              /\ UNCHANGED inflight
         ELSE /\ Continue(FreeSlot, "update_admin_credentials", "update", a, <<>>)
              /\ UNCHANGED last
    /\ nreq' = nreq + 1
    /\ UNCHANGED <<stores, registered, cascaded>>

\* update_admin_credentials, lines 237-246: update_one on the first user
\* whose email is current_email; modified_count is 0 when nothing matches
\* any more or when the document does not change
update_admin_credentials_update(s) ==
    /\ Running(s, "update_admin_credentials", "update")
    /\ \E salt \in Salts :
         LET a == inflight[s].a
             i == find_user_by_email(users, a.current_email)
             doc == IF i = 0 THEN <<>>
                    ELSE [users[i] EXCEPT !.email = a.new_email,
                              !.password = generate_password_hash(a.new_password, salt)]
             modified == i # 0 /\ doc # users[i]
         IN  /\ users' = IF i = 0 THEN users ELSE [users EXCEPT ![i] = doc]
             /\ IF ~modified
                THEN Reply("update_admin_credentials", inflight[s].seq, a, 500,
                           Error("Failed to update admin credentials"), <<>>)
                ELSE Reply("update_admin_credentials", inflight[s].seq, a, 200,
                           Message("Admin credentials updated successfully"), <<>>)
    /\ Finish(s)
    /\ UNCHANGED <<products, orders, carts, nextOid, emitted, nreq, registered, cascaded>>

\* admin_delete_user, lines 212-215: ObjectId(user_id), then find_one.
\* InvalidId is not caught: Flask answers 500.
admin_delete_user_find ==
    /\ CanReceive
    /\ \E id \in PathIds :
         LET oid == ObjectId(id)
             i == IF oid = <<>> THEN 0 ELSE find_user_by_id(users, oid[1])
         IN  IF oid = <<>>
             THEN /\ Reply("admin_delete_user", nreq + 1, id, 500, Error("InvalidId"), <<>>)
                  /\ UNCHANGED inflight
             ELSE IF i = 0
             THEN /\ Reply("admin_delete_user", nreq + 1, id, 404, Error("User not found"), <<>>)
                  /\ UNCHANGED inflight
             ELSE /\ Continue(FreeSlot, "admin_delete_user", "delete_one", id,
                              [oid |-> oid[1], user_email |-> users[i].email])
                  /\ UNCHANGED last
    /\ nreq' = nreq + 1
    /\ UNCHANGED <<stores, registered, cascaded>>

\* admin_delete_user, lines 216-218: delete_one
admin_delete_user_delete_one(s) ==
    /\ Running(s, "admin_delete_user", "delete_one")
    /\ LET i == find_user_by_id(users, inflight[s].g.oid)
       IN  IF i = 0
           THEN /\ Reply("admin_delete_user", inflight[s].seq, inflight[s].a, 404,
                         Error("User not found"), inflight[s].g)
                /\ Finish(s)
                /\ UNCHANGED users
           ELSE /\ users' = RemoveAt(users, i)
                /\ inflight' = [inflight EXCEPT ![s].pc = "delete_many"]
                /\ UNCHANGED last
    /\ UNCHANGED <<products, orders, carts, nextOid, emitted, nreq, registered, cascaded>>

\* orders_collection.delete_many({'user_email': e})
delete_orders_of(coll, e) == SelectSeq(coll, LAMBDA o : o.user_email # e)

\* admin_delete_user, lines 219-221: the cascade, then 200
admin_delete_user_delete_many(s) ==
    /\ Running(s, "admin_delete_user", "delete_many")
    /\ orders' = delete_orders_of(orders, inflight[s].g.user_email)
    /\ cascaded' = cascaded \cup {inflight[s].g.user_email}
    /\ Reply("admin_delete_user", inflight[s].seq, inflight[s].a, 200,
             Message("User and their orders removed successfully"), inflight[s].g)
    /\ Finish(s)
    /\ UNCHANGED <<users, products, carts, nextOid, emitted, nreq, registered>>

\* ================================================================= Catalog
find_product(coll, pid) == FirstIdx({k \in 1..Len(coll) : coll[k].id = pid})

\* get_products, lines 67-70
get_products ==
    /\ CanReceive
    /\ Reply("get_products", nreq + 1, <<>>, 200, Data(products), <<>>)
    /\ nreq' = nreq + 1
    /\ UNCHANGED <<stores, inflight, registered, cascaded>>

\* update_stock, lines 74-81: validation, then update_one on the product
update_stock_begin ==
    /\ CanReceive
    /\ \E a \in StockInputs :
         LET i == find_product(products, a.product_id)
         IN  IF a.stock = <<>>
             THEN /\ Reply("update_stock", nreq + 1, a, 400, Error("Missing stock value"), <<>>)
                  /\ UNCHANGED <<inflight, products>>
             ELSE IF i = 0
             THEN /\ Reply("update_stock", nreq + 1, a, 404, Error("Product not found"), <<>>)
                  /\ UNCHANGED <<inflight, products>>
             ELSE /\ products' = [products EXCEPT ![i].stock = a.stock[1]]
                  /\ Continue(FreeSlot, "update_stock", "emit", a, <<>>)
                  /\ UNCHANGED last
    /\ nreq' = nreq + 1
    /\ UNCHANGED <<users, orders, carts, nextOid, emitted, registered, cascaded>>

\* a bug: the broadcast carries the stock the product had before the update
StockUpdateEvent_stale(a, seq) ==
    [event |-> "stock_update",
     payload |-> [product_id |-> a.product_id, stock |-> 5],
     by |-> seq]
\* the broadcast of line 84; `by` is history: the request that emitted it
StockUpdateEvent(a, seq) ==
    [event |-> "stock_update",
     payload |-> [product_id |-> a.product_id, stock |-> a.stock[1]],
     by |-> seq]

\* update_stock, lines 83-85: the broadcast, then 200
update_stock_emit(s) ==
    /\ Running(s, "update_stock", "emit")
    /\ emitted' = Append(emitted, StockUpdateEvent(inflight[s].a, inflight[s].seq))
    /\ Reply("update_stock", inflight[s].seq, inflight[s].a, 200, Message("Stock updated"), <<>>)
    /\ Finish(s)
    /\ UNCHANGED <<users, products, orders, carts, nextOid, nreq, registered, cascaded>>

\* handle_chat_message, lines 195-199
handle_chat_message ==
    /\ nreq < MaxReqs
    /\ \E m \in ChatInputs :
         emitted' = IF m # ""
                    THEN Append(emitted, [event |-> "chat_message",
                                          payload |-> [message |-> m], by |-> nreq + 1])
                    ELSE emitted
    /\ nreq' = nreq + 1
    /\ UNCHANGED <<users, products, orders, carts, nextOid, inflight, last, registered, cascaded>>

\* ================================================================== Orders
\* a bug: an image the client sent is kept
enrich_keep_client(coll, item) ==
    LET i == FirstIdx({k \in 1..Len(coll) : coll[k].id = item.id})
    IN  IF item.image # <<>> THEN item
        ELSE IF i # 0 /\ coll[i].image # <<>>
        THEN [item EXCEPT !.image = coll[i].image]
        ELSE [item EXCEPT !.image = <<"">>]
\* lines 102-108: the image of the product with the item's id, '' when there
\* is no such product or it has no image field
enrich(coll, item) ==
    LET i == find_product(coll, item.id)
    IN  IF i # 0 /\ coll[i].image # <<>>
        THEN [item EXCEPT !.image = coll[i].image]
        ELSE [item EXCEPT !.image = <<"">>]
enriched_items(coll, items) == [k \in 1..Len(items) |-> enrich(coll, items[k])]

\* create_order, lines 90-108: validation and the image lookups.  The
\* lookups read only id and image, which no handler writes, so they are
\* taken in one step.
create_order_begin ==
    /\ CanReceive
    /\ \E a \in OrderInputs :
         IF a.user_email = "" \/ a.items = <<>> \/ a.city = "" \/ a.pincode = ""
            \/ a.total_price = <<>>
         THEN /\ Reply("create_order", nreq + 1, a, 400,
                       Error("Missing required order fields"), <<>>)
              /\ UNCHANGED <<inflight, cascaded>>
         ELSE /\ Continue(FreeSlot, "create_order", "insert", a,
                          [enriched |-> enriched_items(products, a.items)])
              /\ cascaded' = cascaded \ {a.user_email}
              /\ UNCHANGED last
    /\ nreq' = nreq + 1
    /\ UNCHANGED <<stores, registered>>

\* the document of lines 110-119 (order_date, a timestamp, is left out)
new_order(oid, a, items) ==
    [_id |-> oid, user_email |-> a.user_email, items |-> items, city |-> a.city,
     pincode |-> a.pincode, total_price |-> a.total_price[1],
     status |-> "Pending", cancellationRequested |-> FALSE]

\* create_order, lines 110-121: insert_one, then 201
create_order_insert(s) ==
    /\ Running(s, "create_order", "insert")
    /\ orders' = Append(orders, new_order(nextOid, inflight[s].a, inflight[s].g.enriched))
    /\ nextOid' = nextOid + 1
    /\ Reply("create_order", inflight[s].seq, inflight[s].a, 201,
             Message("Order placed successfully"),
             [oid |-> nextOid])
    /\ Finish(s)
    /\ UNCHANGED <<users, products, carts, emitted, nreq, registered, cascaded>>

OrderView(o) == [o EXCEPT !._id = OidStr(o._id)]
OrderViews(coll) == [i \in 1..Len(coll) |-> OrderView(coll[i])]

\* get_orders, lines 123-129
get_orders ==
    /\ CanReceive
    /\ \E e \in Emails :
         Reply("get_orders", nreq + 1, e, 200,
               Data(OrderViews(SelectSeq(orders, LAMBDA o : o.user_email = e))), <<>>)
    /\ nreq' = nreq + 1
    /\ UNCHANGED <<stores, inflight, registered, cascaded>>

\* admin_get_orders, lines 140-146
admin_get_orders ==
    /\ CanReceive
    /\ Reply("admin_get_orders", nreq + 1, <<>>, 200, Data(OrderViews(orders)), <<>>)
    /\ nreq' = nreq + 1
    /\ UNCHANGED <<stores, inflight, registered, cascaded>>

find_order(coll, oid) == FirstIdx({k \in 1..Len(coll) : coll[k]._id = oid})

\* request_cancellation, lines 133-137.  InvalidId is not caught: 500.
request_cancellation ==
    /\ CanReceive
    /\ \E id \in PathIds :
         LET oid == ObjectId(id)
             i == IF oid = <<>> THEN 0 ELSE find_order(orders, oid[1])
             g == <<>>
         IN  IF oid = <<>>
             THEN /\ Reply("request_cancellation", nreq + 1, id, 500, Error("InvalidId"), g)
                  /\ UNCHANGED orders
             ELSE IF i = 0
             THEN /\ Reply("request_cancellation", nreq + 1, id, 404, Error("Order not found"), g)
                  /\ UNCHANGED orders
             ELSE /\ orders' = [orders EXCEPT ![i].cancellationRequested = TRUE]
                  /\ Reply("request_cancellation", nreq + 1, id, 200,
                           Message("Cancellation requested successfully"), g)
    /\ nreq' = nreq + 1
    /\ UNCHANGED <<users, products, carts, nextOid, emitted, inflight, registered, cascaded>>

\* admin_update_order_status, lines 150-160.  The status check comes before
\* ObjectId(order_id).
admin_update_order_status ==
    /\ CanReceive
    /\ \E id \in PathIds, st \in StatusInputs :
         LET a == [order_id |-> id, status |-> st]
             oid == ObjectId(id)
             i == IF oid = <<>> THEN 0 ELSE find_order(orders, oid[1])
             g == <<>>
         IN  IF st = ""
             THEN /\ Reply("admin_update_order_status", nreq + 1, a, 400, Error("Missing status"), g)
                  /\ UNCHANGED orders
             ELSE IF oid = <<>>
             THEN /\ Reply("admin_update_order_status", nreq + 1, a, 500, Error("InvalidId"), g)
                  /\ UNCHANGED orders
             ELSE IF i = 0
             THEN /\ Reply("admin_update_order_status", nreq + 1, a, 404, Error("Order not found"), g)
                  /\ UNCHANGED orders
             ELSE /\ orders' = [orders EXCEPT ![i].status = st]
                  /\ Reply("admin_update_order_status", nreq + 1, a, 200,
                           Message("Order status updated successfully"), g)
    /\ nreq' = nreq + 1
    /\ UNCHANGED <<users, products, carts, nextOid, emitted, inflight, registered, cascaded>>

\* ==================================================================== Cart
find_cart(coll, e) == FirstIdx({k \in 1..Len(coll) : coll[k].user_email = e})
\* a bug: the saved items are added to the stored ones
merge_items(doc, items) == [doc EXCEPT !.items = doc.items \o items]
\* {'$set': {'items': items}}
set_items(doc, items) == [doc EXCEPT !.items = items]

\* what get_cart returns for an email, lines 165-169
cart_items(coll, e) ==
    LET i == find_cart(coll, e) IN IF i # 0 THEN coll[i].items ELSE <<>>

get_cart ==
    /\ CanReceive
    /\ \E e \in Emails :
         Reply("get_cart", nreq + 1, e, 200, Data(cart_items(carts, e)), <<>>)
    /\ nreq' = nreq + 1
    /\ UNCHANGED <<stores, inflight, registered, cascaded>>

\* save_cart, lines 173-185, when a cart matches: update_one sets items on
\* the first matching document.  When none matches the upsert goes on to
\* insert one; the collection has no unique index on user_email, and
\* MongoDB then does not make the match and the insert one atomic step.
save_cart_update ==
    /\ CanReceive
    /\ \E a \in CartInputs :
         LET i == find_cart(carts, a.user_email)
             g == [before |-> carts]
         IN  IF a.user_email = "" \/ a.items = <<>>
             THEN /\ Reply("save_cart", nreq + 1, a, 400, Error("Missing user_email or items"), g)
                  /\ UNCHANGED <<inflight, carts>>
             ELSE IF i # 0
             THEN /\ carts' = [carts EXCEPT ![i] = set_items(carts[i], a.items[1])]
                  /\ Reply("save_cart", nreq + 1, a, 200, Message("Cart saved successfully"), g)
                  /\ UNCHANGED inflight
             ELSE /\ Continue(FreeSlot, "save_cart", "upsert_insert", a, g)
                  /\ UNCHANGED <<last, carts>>
    /\ nreq' = nreq + 1
    /\ UNCHANGED <<users, products, orders, nextOid, emitted, registered, cascaded>>

\* save_cart, the insert half of the upsert, then 200
save_cart_upsert_insert(s) ==
    /\ Running(s, "save_cart", "upsert_insert")
    /\ carts' = Append(carts, [user_email |-> inflight[s].a.user_email,
                               items |-> inflight[s].a.items[1]])
    /\ Reply("save_cart", inflight[s].seq, inflight[s].a, 200,
             Message("Cart saved successfully"), inflight[s].g)
    /\ Finish(s)
    /\ UNCHANGED <<users, products, orders, nextOid, emitted, nreq, registered, cascaded>>

\* ========================================================== specifications
AccountsNext ==
    \/ register_begin
    \/ \E s \in Slots : register_insert(s)
    \/ login
    \/ admin_get_users
    \/ update_admin_credentials_begin
    \/ \E s \in Slots : update_admin_credentials_update(s)
    \/ admin_delete_user_find
    \/ \E s \in Slots : admin_delete_user_delete_one(s)
    \/ \E s \in Slots : admin_delete_user_delete_many(s)
CatalogNext ==
    \/ get_products
    \/ update_stock_begin
    \/ \E s \in Slots : update_stock_emit(s)
    \/ handle_chat_message
OrdersNext ==
    \/ create_order_begin
    \/ \E s \in Slots : create_order_insert(s)
    \/ get_orders
    \/ admin_get_orders
    \/ request_cancellation
    \/ admin_update_order_status
CartNext ==
    \/ get_cart
    \/ save_cart_update
    \/ \E s \in Slots : save_cart_upsert_insert(s)

Next == AccountsNext \/ CatalogNext \/ OrdersNext \/ CartNext
Spec == Init /\ [][Next]_vars

\* Slices: the handlers that read or write one part of the store, with the
\* other handlers at rest.
AccountsSpec == Init /\ [][AccountsNext]_vars
CheckoutNext ==
    \/ CatalogNext
    \/ create_order_begin
    \/ \E s \in Slots : create_order_insert(s)
CatalogSpec == Init /\ [][CheckoutNext]_vars
CascadeNext ==
    \/ register_begin
    \/ \E s \in Slots : register_insert(s)
    \/ admin_delete_user_find
    \/ \E s \in Slots : admin_delete_user_delete_one(s)
    \/ \E s \in Slots : admin_delete_user_delete_many(s)
    \/ OrdersNext
OrdersSpec == Init /\ [][CascadeNext]_vars
CartSpec == Init /\ [][CartNext]_vars

\* a handler returned its response in this step
Replied == last'.seq # last.seq

\* ================================================================== claims

\* C1: no two User documents have the same email, in any reachable state.
C1_UniqueEmail ==
    \A i, j \in 1..Len(users) : users[i].email = users[j].email => i = j

\* C2 as stated: once register has returned 201 for an email, every register
\* request for that email received while a user with it exists returns
\* 400 'Email already registered' and leaves users unchanged.
C2_After201(r) == r.op = "register" /\ r.g.after201 /\ r.g.existed
C2_Conflict(r) == r.status = 400 /\ r.body = Error("Email already registered")
C2_SecondRegisterConflicts ==
    [][(Replied /\ C2_After201(last')) => (C2_Conflict(last') /\ users' = users)]_vars

\* C2 amended: the same, for the register requests that carry a name and a
\* password; one that lacks either returns 400 'Missing required fields'.
C2_Complete(r) == r.a.name # "" /\ r.a.password # ""
C2_SecondCompleteRegisterConflicts ==
    [][(Replied /\ C2_After201(last') /\ C2_Complete(last'))
          => (C2_Conflict(last') /\ users' = users)]_vars
C2_MissingFieldsFirst ==
    [][(Replied /\ C2_After201(last') /\ ~C2_Complete(last'))
          => (last'.status = 400 /\ last'.body = Error("Missing required fields")
              /\ users' = users)]_vars
C2_Witness ==
    /\ last.op = "register"
    /\ C2_After201(last) /\ C2_Complete(last) /\ C2_Conflict(last)
    /\ HasEmail(users, last.a.email)

\* C3: after deleteUser has returned 200 for a user with email e, and until a
\* createOrder for e is received, adminListOrders shows no order of e.
C3_CascadeComplete ==
    \A e \in cascaded :
        \A k \in 1..Len(orders) : OrderViews(orders)[k].user_email # e

\* C4: an order is created with cancellationRequested false; once true it
\* stays true while the order exists; requestCancellation on an existing
\* order sets it and nothing else; on an id that is no order's it returns
\* 404 and changes nothing.
C4_IsOrder(coll, id) == \E k \in 1..Len(coll) : OidStr(coll[k]._id) = id
C4_Flagged(coll, id) ==
    [k \in 1..Len(coll) |->
        IF OidStr(coll[k]._id) = id
        THEN [coll[k] EXCEPT !.cancellationRequested = TRUE] ELSE coll[k]]
C4_Step ==
    /\ \A k \in 1..Len(orders') :
          (\A j \in 1..Len(orders) : orders[j]._id # orders'[k]._id)
              => orders'[k].cancellationRequested = FALSE
    /\ \A j \in 1..Len(orders), k \in 1..Len(orders') :
          (orders[j]._id = orders'[k]._id /\ orders[j].cancellationRequested)
              => orders'[k].cancellationRequested
    /\ (Replied /\ last'.op = "request_cancellation")
          => IF C4_IsOrder(orders, last'.a)
             THEN last'.status = 200 /\ orders' = C4_Flagged(orders, last'.a)
             ELSE last'.status = 404 /\ orders' = orders
C4_CancellationMonotonic == [][C4_Step]_vars

\* the part of C4 the code does satisfy: created false, never reset, and
\* requestCancellation on a well-formed id
C4_WellFormedStep ==
    /\ \A k \in 1..Len(orders') :
          (\A j \in 1..Len(orders) : orders[j]._id # orders'[k]._id)
              => orders'[k].cancellationRequested = FALSE
    /\ \A j \in 1..Len(orders), k \in 1..Len(orders') :
          (orders[j]._id = orders'[k]._id /\ orders[j].cancellationRequested)
              => orders'[k].cancellationRequested
    /\ (Replied /\ last'.op = "request_cancellation")
          => IF C4_IsOrder(orders, last'.a)
             THEN last'.status = 200 /\ orders' = C4_Flagged(orders, last'.a)
             ELSE /\ last'.status = IF ObjectId(last'.a) = <<>> THEN 500 ELSE 404
                  /\ orders' = orders
C4_MonotonicOnWellFormedIds == [][C4_WellFormedStep]_vars

\* C5: a successful updateStock sets the product's stock and emits exactly one
\* stock_update with that product id and stock, after the store write; a
\* failing one (400 missing stock, 404 unknown product) emits nothing and
\* changes no product; nothing but updateStock changes a product.
C5_ProductExists(coll, pid) == \E k \in 1..Len(coll) : coll[k].id = pid
C5_StockEvents(log, seq) ==
    {k \in 1..Len(log) : log[k].event = "stock_update" /\ log[k].by = seq}
C5_Wrote(s) == inflight'[s] # inflight[s] /\ inflight'[s].op = "update_stock"
C5_Step ==
    /\ \A s \in Slots : C5_Wrote(s) =>
          LET a == inflight'[s].a
          IN  /\ a.stock # <<>> /\ C5_ProductExists(products, a.product_id)
              /\ Len(products') = Len(products)
              /\ \A k \in 1..Len(products) :
                    products'[k] = IF products[k].id = a.product_id
                                   THEN [products[k] EXCEPT !.stock = a.stock[1]]
                                   ELSE products[k]
    /\ products' # products => \E s \in Slots : C5_Wrote(s)
    /\ (Replied /\ last'.op = "update_stock") =>
          LET a == last'.a
          IN  IF a.stock # <<>> /\ C5_ProductExists(products, a.product_id)
              THEN /\ last'.status = 200
                   /\ \E s \in Slots : Running(s, "update_stock", "emit")
                                          /\ inflight[s].seq = last'.seq
                   /\ emitted' = Append(emitted,
                         [event |-> "stock_update",
                          payload |-> [product_id |-> a.product_id, stock |-> a.stock[1]],
                          by |-> last'.seq])
                   /\ Cardinality(C5_StockEvents(emitted', last'.seq)) = 1
                   /\ products' = products
              ELSE /\ last'.status = IF a.stock = <<>> THEN 400 ELSE 404
                   /\ C5_StockEvents(emitted', last'.seq) = {}
                   /\ emitted' = emitted
                   /\ products' = products
    /\ \A k \in 1..Len(emitted') :
          (emitted'[k].event = "stock_update" /\ (k > Len(emitted) \/ emitted[k] # emitted'[k]))
              => (Replied /\ last'.op = "update_stock" /\ last'.status = 200
                  /\ last'.seq = emitted'[k].by)
C5_StockUpdateBroadcastOnce == [][C5_Step]_vars
C5_Witness ==
    /\ last.op = "update_stock" /\ last.status = 200
    /\ last.a = [product_id |-> 1, stock |-> <<7>>]
    /\ \E k \in 1..Len(products) : products[k].id = 1 /\ products[k].stock = 7
    /\ \E k \in 1..Len(emitted) :
          emitted[k].payload = [product_id |-> 1, stock |-> 7] /\ emitted[k].by = last.seq

\* C6: saveCart replaces: a saveCart that has returned leaves a cart for its
\* email and no step removes one; after saveCart(e, B) on an email that had
\* a cart, getCart(e) returns exactly B and the carts of other emails are
\* unchanged;
\* getCart for an email with no cart returns the empty sequence with 200
\* and creates nothing.
C6_HasCart(coll, e) == \E k \in 1..Len(coll) : coll[k].user_email = e
C6_CartsOf(coll, e) == SelectSeq(coll, LAMBDA c : c.user_email = e)
C6_Step ==
    /\ (Replied /\ last'.op = "save_cart" /\ last'.status = 200) =>
          LET e == last'.a.user_email
              B == last'.a.items[1]
          IN  /\ (C6_HasCart(last'.g.before, e) \/ ~C6_HasCart(carts, e))
                    => cart_items(carts', e) = B
              /\ C6_HasCart(carts', e)
              /\ \A e2 \in Emails \ {e} : C6_CartsOf(carts', e2) = C6_CartsOf(carts, e2)
    /\ \A e \in Emails : C6_HasCart(carts, e) => C6_HasCart(carts', e)
    /\ (Replied /\ last'.op = "get_cart") =>
          /\ last'.status = 200
          /\ carts' = carts
          /\ ~C6_HasCart(carts, last'.a) => last'.body = Data(<<>>)
          /\ C6_HasCart(carts, last'.a) => last'.body = Data(cart_items(carts, last'.a))
C6_SaveCartReplaces == [][C6_Step]_vars
C6_Witness ==
    /\ last.op = "save_cart" /\ last.status = 200
    /\ LET e == last.a.user_email
           A == cart_items(last.g.before, e)
           B == last.a.items[1]
       IN  /\ C6_HasCart(last.g.before, e)
           /\ A # <<>> /\ B # <<>> /\ A # B
           /\ cart_items(carts, e) = B

\* C7: the carts collection holds at most one Cart document per user_email.
C7_OneCartPerEmail ==
    \A i, j \in 1..Len(carts) : carts[i].user_email = carts[j].user_email => i = j

\* C8: login answers 401 'Invalid email or password' both when no user has
\* the email and when the password does not match, changes no stored state,
\* and the answer is the one it would give with the user removed.
C8_NoSuchUser(coll, a) == \A k \in 1..Len(coll) : coll[k].email # a.email
C8_WrongPassword(coll, a) ==
    /\ \E k \in 1..Len(coll) : coll[k].email = a.email
    /\ \A k \in 1..Len(coll) : coll[k].email = a.email => coll[k].password.pw # a.password
C8_Without(coll, e) == SelectSeq(coll, LAMBDA u : u.email # e)
C8_Step ==
    /\ (Replied /\ last'.op = "login") =>
          /\ UNCHANGED stores
          /\ (last'.a.email # "" /\ last'.a.password # ""
              /\ (C8_NoSuchUser(users, last'.a) \/ C8_WrongPassword(users, last'.a)))
                 => (last'.status = 401 /\ last'.body = Error("Invalid email or password"))
    /\ \A a \in LoginInputs :
          (a.email # "" /\ a.password # "" /\ C8_WrongPassword(users', a))
             => LoginResponse(users', a) = LoginResponse(C8_Without(users', a.email), a)
C8_LoginUndifferentiated == [][C8_Step]_vars
C8_Witness ==
    /\ last.op = "login" /\ last.status = 401
    /\ last.body = Error("Invalid email or password")
    /\ C8_WrongPassword(users, last.a)

\* C9: a successful createOrder stores each item with the image of the
\* product with the item's id ('' when there is none or it has no image),
\* whatever image the client sent, with status 'Pending', and changes no
\* Product.
C9_ImageOf(coll, pid) ==
    IF \E k \in 1..Len(coll) : coll[k].id = pid /\ coll[k].image # <<>>
    THEN (CHOOSE pr \in Range(coll) : pr.id = pid /\ pr.image # <<>>).image[1]
    ELSE ""
C9_ByCreateOrder ==
    \/ Replied /\ last'.op = "create_order"
    \/ \E s \in Slots : inflight'[s] # inflight[s] /\ inflight'[s].op = "create_order"
C9_Step ==
    /\ C9_ByCreateOrder => products' = products
    /\ (Replied /\ last'.op = "create_order") =>
          IF last'.status = 201
          THEN /\ Len(orders') = Len(orders) + 1
               /\ SubSeq(orders', 1, Len(orders)) = orders
               /\ LET o == orders'[Len(orders')]
                      a == last'.a
                  IN  /\ o.status = "Pending"
                      /\ o._id = last'.g.oid
                      /\ o.user_email = a.user_email
                      /\ Len(o.items) = Len(a.items)
                      /\ \A k \in 1..Len(a.items) :
                            /\ o.items[k].image = <<C9_ImageOf(products, a.items[k].id)>>
                            /\ o.items[k].id = a.items[k].id
                            /\ o.items[k].quantity = a.items[k].quantity
          ELSE orders' = orders
C9_OrderSnapshotsImages == [][C9_Step]_vars
C9_Witness ==
    /\ last.op = "create_order" /\ last.status = 201
    /\ last.a.items[1] = [id |-> 1, quantity |-> 2, image |-> <<"client.png">>]
    /\ \E k \in 1..Len(orders) :
          /\ orders[k]._id = last.g.oid
          /\ orders[k].items[1].image = <<"img.png">>
    /\ \E k \in 1..Len(products) : products[k].id = 1 /\ products[k].stock = 7

\* C10: only adminUpdateStatus changes the status of an existing order; on an
\* existing order with a non-empty status it sets that order's status and
\* nothing else; with no status it returns 400, on an id that is no order's
\* 404, changing nothing.
C10_WithStatus(coll, id, st) ==
    [k \in 1..Len(coll) |->
        IF OidStr(coll[k]._id) = id THEN [coll[k] EXCEPT !.status = st] ELSE coll[k]]
C10_StatusChanged ==
    \E j \in 1..Len(orders), k \in 1..Len(orders') :
        orders[j]._id = orders'[k]._id /\ orders[j].status # orders'[k].status
C10_Step ==
    /\ C10_StatusChanged
          => (Replied /\ last'.op = "admin_update_order_status" /\ last'.status = 200)
    /\ (Replied /\ last'.op = "admin_update_order_status") =>
          IF last'.a.status = ""
          THEN last'.status = 400 /\ orders' = orders
          ELSE IF C4_IsOrder(orders, last'.a.order_id)
          THEN /\ last'.status = 200
               /\ orders' = C10_WithStatus(orders, last'.a.order_id, last'.a.status)
          ELSE last'.status = 404 /\ orders' = orders
C10_StatusOnlyByAdmin == [][C10_Step]_vars

\* the part of C10 the code does satisfy: as C10, with 500 for an order id
\* that ObjectId rejects
C10_WellFormedStep ==
    /\ C10_StatusChanged
          => (Replied /\ last'.op = "admin_update_order_status" /\ last'.status = 200)
    /\ (Replied /\ last'.op = "admin_update_order_status") =>
          IF last'.a.status = ""
          THEN last'.status = 400 /\ orders' = orders
          ELSE IF C4_IsOrder(orders, last'.a.order_id)
          THEN /\ last'.status = 200
               /\ orders' = C10_WithStatus(orders, last'.a.order_id, last'.a.status)
          ELSE /\ last'.status = IF ObjectId(last'.a.order_id) = <<>> THEN 500 ELSE 404
               /\ orders' = orders
C10_StatusOnlyByAdminOnWellFormedIds == [][C10_WellFormedStep]_vars
====
